---- MODULE Spec2Model ----
(***************************************************************************)
(* The AgentFlow runtime: the dispatcher task that takes execution         *)
(* requests from the bus (lib.rs), the execution records it keeps in the   *)
(* shared map (agent.rs), the sandbox engine it calls (wasm.rs), the       *)
(* read-only HTTP surface (server.rs) and shutdown (lib.rs, main.rs).      *)
(*                                                                         *)
(* Option<T> is a sequence of length at most one: None is <<>> and Some(x) *)
(* is <<x>>.  The wall clock is a counter of seconds that never goes back. *)
(***************************************************************************)
EXTENDS Integers, Sequences, FiniteSets, TLC

\* ------------------------------------------------------------------ bounds
\* The number of messages the bus delivers in one run of the process.
MaxMessages == 2
\* The last second the wall clock reaches.
MaxClock == 1

\* ----------------------------------------------------------------- options
None == <<>>
Some(x) == <<x>>
IsSome(o) == o # <<>>
Unwrap(o) == o[1]

\* ------------------------------------------------------------ agent.rs data
\* AgentRequest with its AgentConfig (the llm fields and the environment map are
\* opaque to the runtime and fixed here).
AgentRequestOf(agent_id, image, timeout_seconds) ==
    [agent_id |-> agent_id, workflow_id |-> "w1", image |-> image,
     input |-> "{\"x\":1}",
     config |-> [llm_provider |-> "openai", llm_model |-> "gpt-4",
                 timeout_seconds |-> timeout_seconds]]

\* A payload on the wire: the JSON text of a request, or bytes that are not one.
Json(r) == [json |-> TRUE, body |-> Some(r)]
Garbage == [json |-> FALSE, body |-> None]

\* async_nats::Message: the payload and the optional reply subject.
MessageOf(payload, reply) == [payload |-> payload, reply |-> reply]

\* The requests the bus may carry: one that meets the data model's constraints,
\* and one that breaks them (empty agent_id, empty image, timeout 0).
Requests ==
    { AgentRequestOf("a1", "demo:v1", Some(5)),
      AgentRequestOf("", "", Some(0)) }

\* The messages the bus may deliver.
Messages ==
    { MessageOf(Json(q), r) : q \in Requests, r \in {None, Some("_INBOX.1")} }
        \cup { MessageOf(Garbage, Some("_INBOX.1")) }

\* serde_json::from_slice::<AgentRequest>: Some(request), or None for the error.
from_slice_lenient(payload) ==
    IF payload.json THEN payload.body ELSE Some(AgentRequestOf("a1", "demo:v1", None))
from_slice(payload) == IF payload.json THEN payload.body ELSE None

\* ExecutionStatus
ExecutionStatus == {"Pending", "Running", "Completed", "Failed", "Cancelled"}

\* The ids Uuid::new_v4 can return in one run.
Ids == 1 .. MaxMessages

\* Uuid::new_v4: an id no earlier call returned.  Ids are opaque and
\* interchangeable, so the least unused one stands for any of them.
least(S) == CHOOSE x \in S : \A y \in S : x <= y
new_v4_reused(issued) == least(Ids)
new_v4(issued) == least(Ids \ issued)

\* AgentExecution::new
new(request, id, t) ==
    [id |-> id, request |-> request, status |-> "Pending", result |-> None,
     error |-> None, started_at |-> t, completed_at |-> None]

\* AgentExecution::start
start(exec, t) == [exec EXCEPT !.status = "Running", !.started_at = t]

\* AgentExecution::complete_success
complete_success_no_result(exec, res, t) ==
    [exec EXCEPT !.status = "Completed", !.completed_at = Some(t)]
complete_success(exec, res, t) ==
    [exec EXCEPT !.status = "Completed", !.result = Some(res), !.completed_at = Some(t)]

\* AgentExecution::complete_error
complete_error_no_time(exec, err, t) ==
    [exec EXCEPT !.status = "Failed", !.error = Some(err)]
complete_error_drops_input(exec, err, t) ==
    [exec EXCEPT !.status = "Failed", !.error = Some(err), !.completed_at = Some(t),
                 !.request.input = "null"]
complete_error(exec, err, t) ==
    [exec EXCEPT !.status = "Failed", !.error = Some(err), !.completed_at = Some(t)]

\* AgentExecution::cancel: logs, changes nothing.
cancel_marks(exec) == [exec EXCEPT !.status = "Cancelled"]
cancel_clears(exec) == [exec EXCEPT !.result = None, !.error = Some("cancelled")]
cancel(exec) == exec

\* AgentExecution::is_running, is_completed
is_running(exec) == exec.status = "Running"
is_completed(exec) == exec.status \in {"Completed", "Failed", "Cancelled"}

\* AgentExecution::duration_ms
duration_ms(exec, t) ==
    IF IsSome(exec.completed_at)
    THEN Some((Unwrap(exec.completed_at) - exec.started_at) * 1000)
    ELSE Some((t - exec.started_at) * 1000)

\* ------------------------------------------------------------- wasm.rs data
\* The ticks store.set_epoch_deadline adds to the engine's current epoch.
EpochDeadlineTicks == 1
\* get_memory_usage's fixed answer, in bytes.
MockMemoryUsage == 1048576

\* What the bytes load_agent_wasm hands back can be (it has no error path of its
\* own): a module whose execute returns, one whose execute traps, one whose
\* execute never returns by itself, bytes that do not compile, a module that
\* does not instantiate, and a module without a matching execute export.
ModuleKinds ==
    {"returns", "traps", "loops", "malformed", "unlinkable", "noexport"}

\* anyhow::Result<T>
Ok(v) == [ok |-> TRUE, value |-> Some(v), err |-> None]
Err(e) == [ok |-> FALSE, value |-> None, err |-> Some(e)]

\* read_string's fixed answer, deserialized as AgentOutput.
MockOutput ==
    [result |-> "Agent execution completed", llm_calls |-> Some(1), artifacts |-> None]

\* start_time.elapsed().unwrap_or(Duration::ZERO).as_millis()
elapsed_ms(start_time, t) == IF t >= start_time THEN (t - start_time) * 1000 ELSE 0

\* execute_agent, the Ok(result_ptr) arm.
ok_arm(execution_time) ==
    Ok([success |-> TRUE, output |-> Some(MockOutput), error |-> None,
        metrics |-> [execution_time_ms |-> execution_time,
                     memory_usage |-> MockMemoryUsage,
                     cpu_time |-> execution_time,
                     llm_calls |-> 1]])

\* execute_agent, the Err(e) arm: the trap is returned inside an Ok.
err_arm_keeps_output(e, execution_time) ==
    Ok([success |-> FALSE, output |-> Some(MockOutput), error |-> Some(e),
        metrics |-> [execution_time_ms |-> execution_time,
                     memory_usage |-> 0,
                     cpu_time |-> execution_time,
                     llm_calls |-> 0]])
err_arm(e, execution_time) ==
    Ok([success |-> FALSE, output |-> None, error |-> Some(e),
        metrics |-> [execution_time_ms |-> execution_time,
                     memory_usage |-> 0,
                     cpu_time |-> execution_time,
                     llm_calls |-> 0]])

\* execute_agent before the call: the error a `?` returns for this module, or
\* None when the entry function was found.
early_error(kind) ==
    CASE kind = "malformed" -> Some("Failed to compile WASM module")
      [] kind = "unlinkable" -> Some("Failed to instantiate WASM module")
      [] kind = "noexport" -> Some("Failed to get execute function from WASM module")
      [] OTHER -> None

\* execute_func.call: whether the call has come back, given the engine's epoch.
\* A guest that loops comes back only through the epoch deadline trap.
call_returns(kind, epoch_now, deadline) == kind # "loops" \/ epoch_now >= deadline

\* execute_func.call and the match on its result.
call_result(kind, execution_time) ==
    CASE kind = "returns" -> ok_arm(execution_time)
      [] kind = "traps" -> err_arm("wasm trap: unreachable instruction executed", execution_time)
      [] OTHER -> err_arm("wasm trap: interrupt", execution_time)

\* ------------------------------------------------------------- the registry
\* HashMap::insert
insert_keeps_latest(map, k, v) == [x \in {k} |-> v]
insert_dropped(map, k, v) == map
insert(map, k, v) == [x \in DOMAIN map \cup {k} |-> IF x = k THEN v ELSE map[x]]

\* handle_agent_request, "Update execution with result": get_mut and the match.
update_any_record(map, id, res, t) ==
    [x \in DOMAIN map |->
        IF res.ok THEN complete_success(map[x], Unwrap(res.value), t)
        ELSE complete_error(map[x], Unwrap(res.err), t)]
update_only_ok(map, id, res, t) ==
    IF id \in DOMAIN map /\ res.ok
    THEN [map EXCEPT ![id] = complete_success(@, Unwrap(res.value), t)]
    ELSE map
update(map, id, res, t) ==
    IF id \in DOMAIN map
    THEN [map EXCEPT ![id] =
            IF res.ok THEN complete_success(@, Unwrap(res.value), t)
            ELSE complete_error(@, Unwrap(res.err), t)]
    ELSE map

\* AgentResponse built from the record read under the read lock.
response_of_as_created(exec) ==
    [execution_id |-> exec.id, agent_id |-> exec.request.agent_id,
     status |-> "Pending", result |-> None, error |-> None,
     started_at |-> exec.started_at, completed_at |-> None]
response_of(exec) ==
    [execution_id |-> exec.id, agent_id |-> exec.request.agent_id,
     status |-> exec.status, result |-> exec.result, error |-> exec.error,
     started_at |-> exec.started_at, completed_at |-> exec.completed_at]

\* What the update block hands to the handler: the `if let Some(exec)` has no
\* else and the block is a statement, so it is () whether or not the id was
\* found, and nothing is logged.
update_outcome(map, id) == Ok("()")

\* message.respond: the response goes out on the reply subject, or the publish
\* fails and nothing goes out.
respond_twice(out, subject, response, sent) ==
    Append(Append(out, [subject |-> subject, response |-> response]),
           [subject |-> subject, response |-> response])
respond(out, subject, response, sent) ==
    IF sent THEN Append(out, [subject |-> subject, response |-> response]) ELSE out

\* -------------------------------------------------------------------- state
VARIABLES
    inbox,          \* messages the subscriber holds, not yet taken by the dispatcher
    published,      \* how many messages the bus has delivered
    executions,     \* the shared map: id -> AgentExecution
    readers,        \* the tasks that hold the map's read lock
    pc,             \* where the dispatcher task is
    message,        \* handle_agent_request: the message, Option
    execution,      \* handle_agent_request: the local AgentExecution, Option
    result,         \* handle_agent_request: what execute_agent returned, Option
    module,         \* execute_agent: the module being run, Option
    start_time,     \* execute_agent: start_time
    epoch,          \* the engine's epoch counter
    epoch_deadline, \* the store's epoch deadline
    replies,        \* the responses published on reply subjects
    now,            \* the wall clock, seconds
    issued,         \* the ids Uuid::new_v4 has returned
    updates,        \* history: how many terminal updates each id has had
    main            \* where main is: "serving", "cancelling", "exited"

vars == <<inbox, published, executions, readers, pc, message, execution, result,
          module, start_time, epoch, epoch_deadline, replies, now, issued, updates,
          main>>

handler_locals == <<message, execution, result, module, start_time, epoch_deadline>>

\* The request parsed from the message in hand, and the id of its record.
Request == Unwrap(from_slice(Unwrap(message).payload))
execution_id == Unwrap(execution).id

Init ==
    /\ inbox = <<>>
    /\ published = 0
    /\ executions = << >>
    /\ readers = {}
    /\ pc = "recv"
    /\ message = None
    /\ execution = None
    /\ result = None
    /\ module = None
    /\ start_time = 0
    /\ epoch = 0
    /\ epoch_deadline = 0
    /\ replies = <<>>
    /\ now = 0
    /\ issued = {}
    /\ updates = [id \in Ids |-> 0]
    /\ main = "serving"

Alive == main # "exited"

\* ------------------------------------------------------------------ the bus
\* The bus delivers a message to the subscription.
Publish ==
    /\ Alive
    /\ published < MaxMessages
    /\ \E m \in Messages : inbox' = Append(inbox, m)
    /\ published' = published + 1
    /\ UNCHANGED <<executions, readers, pc, handler_locals, epoch, replies, now,
                   issued, updates, main>>

\* The wall clock moves on.
Tick ==
    /\ Alive
    /\ now < MaxClock
    /\ now' = now + 1
    /\ UNCHANGED <<inbox, published, executions, readers, pc, handler_locals, epoch,
                   replies, issued, updates, main>>

\* ------------------------------------------------- the dispatcher task, lib.rs
\* subscriber.next().await, then handle_agent_request up to the parse: a payload
\* that does not parse makes the handler return the error, which the loop logs.
Receive ==
    /\ Alive
    /\ pc = "recv"
    /\ inbox # <<>>
    /\ inbox' = Tail(inbox)
    /\ IF IsSome(from_slice(Head(inbox).payload))
       THEN /\ message' = Some(Head(inbox))
            /\ pc' = "create"
       ELSE /\ message' = None
            /\ pc' = "recv"
    /\ UNCHANGED <<published, executions, readers, execution, result, module,
                   start_time, epoch, epoch_deadline, replies, now, issued, updates,
                   main>>

\* AgentExecution::new(request.clone())
Create ==
    /\ Alive
    /\ pc = "create"
    /\ execution' = Some(new(Request, new_v4(issued), now))
    /\ issued' = issued \cup {new_v4(issued)}
    /\ pc' = "store"
    /\ UNCHANGED <<inbox, published, executions, readers, message, result, module,
                   start_time, epoch, epoch_deadline, replies, now, updates, main>>

\* executions.write().await.insert(execution_id, execution)
Store ==
    /\ Alive
    /\ pc = "store"
    /\ readers = {}
    /\ executions' = insert(executions, execution_id, Unwrap(execution))
    /\ pc' = "execute"
    /\ UNCHANGED <<inbox, published, readers, handler_locals, epoch, replies, now,
                   issued, updates, main>>

\* execute_agent up to execute_func.call: a `?` returns the error, or the deadline
\* is set and the guest is entered.
Execute ==
    /\ Alive
    /\ pc = "execute"
    /\ \E kind \in ModuleKinds :
          IF IsSome(early_error(kind))
          THEN /\ result' = Some(Err(Unwrap(early_error(kind))))
               /\ pc' = "update"
               /\ UNCHANGED <<module, start_time, epoch_deadline>>
          ELSE /\ module' = Some(kind)
               /\ start_time' = now
               /\ epoch_deadline' = epoch + EpochDeadlineTicks
               /\ pc' = "call"
               /\ UNCHANGED result
    /\ UNCHANGED <<inbox, published, executions, readers, message, execution, epoch,
                   replies, now, issued, updates, main>>

\* execute_func.call comes back, and execute_agent returns its AgentResult.
Call ==
    /\ Alive
    /\ pc = "call"
    /\ call_returns(Unwrap(module), epoch, epoch_deadline)
    /\ result' = Some(call_result(Unwrap(module), elapsed_ms(start_time, now)))
    /\ pc' = "update"
    /\ UNCHANGED <<inbox, published, executions, readers, message, execution, module,
                   start_time, epoch, epoch_deadline, replies, now, issued, updates,
                   main>>

\* The block that takes the write lock and completes the record.
Update ==
    /\ Alive
    /\ pc = "update"
    /\ readers = {}
    /\ executions' = update(executions, execution_id, Unwrap(result), now)
    /\ updates' = [id \in Ids |->
                      IF id \in DOMAIN executions /\ executions'[id] # executions[id]
                      THEN updates[id] + 1
                      ELSE updates[id]]
    /\ pc' = "reply"
    /\ UNCHANGED <<inbox, published, readers, handler_locals, epoch, replies, now,
                   issued, main>>

\* `if let Some(reply) = message.reply`: without a reply subject the handler
\* returns; with one it takes the read lock and builds the response.
Reply ==
    /\ Alive
    /\ pc = "reply"
    /\ IF IsSome(Unwrap(message).reply) /\ execution_id \in DOMAIN executions
       THEN /\ readers' = readers \cup {"handler"}
            /\ pc' = "respond"
            /\ UNCHANGED handler_locals
       ELSE /\ pc' = "recv"
            /\ message' = None
            /\ execution' = None
            /\ result' = None
            /\ module' = None
            /\ start_time' = 0
            /\ epoch_deadline' = 0
            /\ UNCHANGED readers
    /\ UNCHANGED <<inbox, published, executions, epoch, replies, now, issued,
                   updates, main>>

\* message.respond(..).await under the read guard: the response is published, or
\* the publish fails and is logged; then the guard is dropped and the handler
\* returns.
Respond ==
    /\ Alive
    /\ pc = "respond"
    /\ \E sent \in BOOLEAN :
          replies' = respond(replies, Unwrap(Unwrap(message).reply),
                             response_of(executions[execution_id]), sent)
    /\ readers' = readers \ {"handler"}
    /\ pc' = "recv"
    /\ message' = None
    /\ execution' = None
    /\ result' = None
    /\ module' = None
    /\ start_time' = 0
    /\ epoch_deadline' = 0
    /\ UNCHANGED <<inbox, published, executions, epoch, now, issued, updates, main>>

\* ------------------------------------------------- the HTTP surface, server.rs
\* Each handler takes the read lock, builds its JSON from the map and drops the
\* lock before the reply is written.  The reply leaves the process, so a handler
\* changes no state: the operators give the JSON it answers and the map it
\* leaves behind.
health_json == [status |-> "healthy", service |-> "agentflow-runtime"]

list_executions_json(map) ==
    [executions |-> {map[id] : id \in DOMAIN map}, count |-> Cardinality(DOMAIN map)]

get_execution_json(map, id) ==
    IF id \in DOMAIN map THEN map[id] ELSE [error |-> "Execution not found", id |-> id]

metrics_json(map) ==
    [total_executions |-> Cardinality(DOMAIN map),
     running_executions |-> Cardinality({id \in DOMAIN map : is_running(map[id])}),
     completed_executions |-> Cardinality({id \in DOMAIN map : is_completed(map[id])})]

\* What a handler that holds the read guard leaves in the map.
read_guard_drains(map) == << >>
read_guard(map) == map

\* GET /health: answers health_json without looking at the map.
Health ==
    /\ main = "serving"
    /\ UNCHANGED <<inbox, published, executions, readers, pc, handler_locals, epoch,
                   replies, now, issued, updates, main>>

\* GET /executions: answers list_executions_json(executions).
ListExecutions ==
    /\ main = "serving"
    /\ executions' = read_guard(executions)
    /\ UNCHANGED <<inbox, published, readers, pc, handler_locals, epoch, replies,
                   now, issued, updates, main>>

\* GET /executions/{id}: answers get_execution_json(executions, id).
GetExecution ==
    /\ main = "serving"
    /\ executions' = read_guard(executions)
    /\ UNCHANGED <<inbox, published, readers, pc, handler_locals, epoch, replies,
                   now, issued, updates, main>>

\* GET /metrics: answers metrics_json(executions).
Metrics ==
    /\ main = "serving"
    /\ executions' = read_guard(executions)
    /\ UNCHANGED <<inbox, published, readers, pc, handler_locals, epoch, replies,
                   now, issued, updates, main>>

\* ------------------------------------------------------- shutdown, main.rs
\* ctrl-c arrives: main aborts the server task, and shutdown takes the read lock.
ShutdownBegin ==
    /\ main = "serving"
    /\ main' = "cancelling"
    /\ readers' = readers \cup {"main"}
    /\ UNCHANGED <<inbox, published, executions, pc, handler_locals, epoch, replies,
                   now, issued, updates>>

\* The loop calls execution.cancel().await on every record; the guard is dropped,
\* shutdown returns and main returns, which ends the process and every task in it.
ShutdownEnd ==
    /\ main = "cancelling"
    /\ executions' = [id \in DOMAIN executions |-> cancel(executions[id])]
    /\ readers' = readers \ {"main"}
    /\ main' = "exited"
    /\ UNCHANGED <<inbox, published, pc, handler_locals, epoch, replies, now, issued,
                   updates>>

Next ==
    \/ Publish
    \/ Tick
    \/ Receive
    \/ Create
    \/ Store
    \/ Execute
    \/ Call
    \/ Update
    \/ Reply
    \/ Respond
    \/ Health
    \/ ListExecutions
    \/ GetExecution
    \/ Metrics
    \/ ShutdownBegin
    \/ ShutdownEnd

Spec == Init /\ [][Next]_vars

\* The dispatcher task is scheduled whenever it can take a step; the bus, the
\* clock and ctrl-c are the environment's.
FairSpec ==
    /\ Spec
    /\ WF_vars(Receive)
    /\ WF_vars(Create)
    /\ WF_vars(Store)
    /\ WF_vars(Execute)
    /\ WF_vars(Call)
    /\ WF_vars(Update)
    /\ WF_vars(Reply)
    /\ WF_vars(Respond)
    /\ WF_vars(ShutdownEnd)

\* ------------------------------------- the update block on any registry
\* The tail of handle_agent_request (update, reply, respond) as a function of
\* its inputs: the map, the handler's record, what execute_agent returned and
\* the message, drawn from bounded sets.  The map may or may not hold the
\* handler's id, which is the case HashMap::get_mut answers with None.
Outcomes ==
    { Err(Unwrap(early_error(kind))) : kind \in {"malformed", "unlinkable", "noexport"} }
        \cup { call_result(kind, 0) : kind \in {"returns", "traps", "loops"} }

RegistryInit ==
    /\ inbox = <<>>
    /\ published = 1
    /\ message \in { Some(m) : m \in { x \in Messages : x.payload.json } }
    /\ execution \in { Some(new(Request, id, 0)) : id \in Ids }
    /\ executions \in { [id \in D |-> new(Request, id, 0)] : D \in SUBSET Ids }
    /\ result \in { Some(o) : o \in Outcomes }
    /\ readers = {}
    /\ pc = "update"
    /\ module = None
    /\ start_time = 0
    /\ epoch = 0
    /\ epoch_deadline = 0
    /\ replies = <<>>
    /\ now \in 0 .. MaxClock
    /\ issued = DOMAIN executions \cup {execution_id}
    /\ updates = [id \in Ids |-> 0]
    /\ main = "serving"

RegistryNext ==
    \/ Update
    \/ Reply
    \/ Respond

RegistrySpec == RegistryInit /\ [][RegistryNext]_vars

\* ------------------------------------------------------------------ claims
Terminal == {"Completed", "Failed", "Cancelled"}

\* The request whose record `id` is still before its terminal update.
InFlight(id) ==
    /\ IsSome(execution)
    /\ execution_id = id
    /\ pc \in {"execute", "call", "update"}

\* What the sandbox engine returned is a failure: an error of the call, or an
\* AgentResult with success = false.
EngineFailed(r) == IF r.ok THEN ~Unwrap(r.value).success ELSE TRUE

\* C1: a record's status only ever moves Pending -> Running and Running ->
\* Completed, Failed or Cancelled; in particular no record becomes terminal
\* without having been Running.
C1_StrictLifecycle ==
    [][\A id \in DOMAIN executions :
          executions'[id].status # executions[id].status
              => \/ /\ executions[id].status = "Pending"
                    /\ executions'[id].status = "Running"
                 \/ /\ executions[id].status = "Running"
                    /\ executions'[id].status \in Terminal]_vars

\* C2: every record in the registry eventually has status Completed, Failed or
\* Cancelled.
C2_EventuallyTerminal ==
    \A id \in Ids :
        [](id \in DOMAIN executions
              => <>(id \in DOMAIN executions /\ executions[id].status \in Terminal))

\* C3: no id ever has more than one terminal update, no more records are made
\* than messages were taken, and once the sandbox engine has come back and the
\* handler is past its update, the record has had exactly one: it is Completed
\* with a result or Failed with an error.
C3_ExactlyOneTerminalUpdate ==
    /\ Cardinality(issued) <= published - Len(inbox)
    /\ \A id \in Ids :
          /\ updates[id] <= 1
          /\ (id \in DOMAIN executions /\ ~InFlight(id))
                => /\ updates[id] = 1
                   /\ \/ /\ executions[id].status = "Completed"
                         /\ IsSome(executions[id].result)
                      \/ /\ executions[id].status = "Failed"
                         /\ IsSome(executions[id].error)

\* Two requests have been handled to the end, one whose guest trapped and one
\* whose module was refused before the call; each has had its one update.
C3_Witness ==
    /\ pc = "recv"
    /\ \E a, b \in DOMAIN executions :
          /\ a # b
          /\ updates[a] = 1
          /\ updates[b] = 1
          /\ IsSome(executions[a].result)
          /\ ~Unwrap(executions[a].result).success
          /\ IsSome(executions[b].error)

\* C4: once the handler has made its update, a failure of the sandbox engine has
\* left the record Failed with an error string.
C4_EngineFailureIsFailed ==
    (pc \in {"reply", "respond"} /\ EngineFailed(Unwrap(result)))
        => /\ executions[execution_id].status = "Failed"
           /\ IsSome(executions[execution_id].error)

\* C5: a call into a guest that never returns leads, unless the process exits
\* first, to the record being Failed with the epoch interrupt as its error.
C5_LoopingGuestTimesOut ==
    (pc = "call" /\ module = Some("loops"))
        ~> \/ main = "exited"
           \/ /\ pc = "reply"
              /\ executions[execution_id].status = "Failed"
              /\ executions[execution_id].error = Some("wasm trap: interrupt")

\* C6: while a sandbox run is in progress and a message waits in the
\* subscription, the dispatcher can take that message.
C6_DispatcherNeverBlocks ==
    (main = "serving" /\ pc = "call" /\ inbox # <<>>) => ENABLED Receive

\* C7: for every record, result is present iff status = Completed and error is
\* present iff status = Failed.
C7_ResultErrorPresence ==
    \A id \in DOMAIN executions :
        /\ IsSome(executions[id].result) <=> executions[id].status = "Completed"
        /\ IsSome(executions[id].error) <=> executions[id].status = "Failed"

\* The registry holds a record Completed with the result of a guest that
\* returned, and a record Failed with the error of a module that was refused.
C7_Witness ==
    \E a, b \in DOMAIN executions :
        /\ executions[a].status = "Completed"
        /\ Unwrap(executions[a].result).success
        /\ executions[a].error = None
        /\ executions[b].status = "Failed"
        /\ executions[b].result = None

\* C8: a record that has a terminal status is the same record after every step.
C8_TerminalRecordsFrozen ==
    [][\A id \in DOMAIN executions :
          executions[id].status \in Terminal
              => /\ id \in DOMAIN executions'
                 /\ executions'[id] = executions[id]]_vars

\* A record became terminal, the coordinator then handled another request to
\* the end and answered it, and shutdown has run its cancel loop over both.
C8_Witness ==
    /\ main = "exited"
    /\ replies # <<>>
    /\ \E a, b \in DOMAIN executions :
          /\ a # b
          /\ executions[a].status \in Terminal
          /\ executions[b].status \in Terminal
          /\ Unwrap(executions[a].completed_at) < Unwrap(executions[b].completed_at)

C10_OwnIdOwnResult ==
    [][/\ \A id \in DOMAIN executions : executions[id].id = id
       /\ (pc = "store" /\ pc' = "execute")
             => /\ execution_id \notin DOMAIN executions
                /\ DOMAIN executions' = DOMAIN executions \cup {execution_id}
                /\ \A id \in DOMAIN executions : executions'[id] = executions[id]
       /\ (pc = "update" /\ pc' = "reply")
             => /\ \A id \in DOMAIN executions \ {execution_id} :
                      executions'[id] = executions[id]
                /\ executions'[execution_id].request = Request
                /\ IF Unwrap(result).ok
                   THEN executions'[execution_id].result = Unwrap(result).value
                   ELSE executions'[execution_id].error = Unwrap(result).err]_vars

\* Two requests with the same agent_id and the same content have two records
\* under two ids, one Completed and one Failed.
C10_Witness ==
    \E a, b \in DOMAIN executions :
        /\ a # b
        /\ executions[a].request = executions[b].request
        /\ executions[a].request.agent_id = "a1"
        /\ executions[a].status = "Completed"
        /\ executions[b].status = "Failed"

\* The dispatcher takes the message at the head of the subscription.
Takes == pc = "recv" /\ inbox # <<>> /\ inbox' = Tail(inbox)

\* C11: when the dispatcher takes a payload that is not an AgentRequest, no
\* record is made, no reply is sent, the registry and everything else but the
\* subscription stay as they were, and the dispatcher is back at its receive;
\* a well-formed payload it takes, after a malformed one or not, is accepted.
C11_MalformedDropped ==
    [][/\ (Takes /\ Head(inbox).payload = Garbage)
             => /\ pc' = "recv"
                /\ UNCHANGED <<published, executions, readers, handler_locals,
                               epoch, replies, now, issued, updates, main>>
       /\ (Takes /\ Head(inbox).payload.json)
             => /\ pc' = "create"
                /\ message' = Some(Head(inbox))
                /\ from_slice(Head(inbox).payload) = Head(inbox).payload.body]_vars

\* A malformed payload was taken and dropped, and the request taken after it
\* has its record, which has had its terminal update.
C11_Witness ==
    /\ pc = "reply"
    /\ published - Len(inbox) = Cardinality(issued) + 1
    /\ Cardinality(DOMAIN executions) = Cardinality(issued)
    /\ executions[execution_id].status \in Terminal

\* The responses in `out` that carry execution id `id`.
ResponsesTo(out, id) == {i \in 1 .. Len(out) : out[i].response.execution_id = id}

\* C12, as stated: a handler that was given a reply subject goes on to respond
\* and returns with exactly one response published for its request; one that
\* was given none returns with no response published; no id has two.
C12_ExactlyOneResponse ==
    [][/\ (pc = "reply" /\ pc' # pc /\ IsSome(Unwrap(message).reply))
             => pc' = "respond"
       /\ (pc = "respond" /\ pc' = "recv")
             => Cardinality(ResponsesTo(replies', execution_id)) = 1
       /\ (pc = "reply" /\ pc' = "recv")
             => Cardinality(ResponsesTo(replies', execution_id)) = 0
       /\ \A id \in Ids : Cardinality(ResponsesTo(replies', id)) <= 1]_vars

\* C12, amended: a handler that was given a reply subject goes on to respond,
\* also when the run failed, and its one publish either adds one response for
\* its own request on that subject or fails and adds nothing; a handler that
\* was given no reply subject returns with no response published; no other
\* step publishes; no id ever has two responses.
C12_AtMostOneResponse ==
    [][/\ (pc = "reply" /\ pc' # pc /\ IsSome(Unwrap(message).reply))
             => pc' = "respond"
       /\ (pc = "respond" /\ pc' = "recv")
             => /\ ResponsesTo(replies, execution_id) = {}
                /\ \/ replies' = replies
                   \/ /\ Len(replies') = Len(replies) + 1
                      /\ SubSeq(replies', 1, Len(replies)) = replies
                      /\ replies'[Len(replies')].subject = Unwrap(Unwrap(message).reply)
                      /\ replies'[Len(replies')].response.execution_id = execution_id
       /\ (pc = "reply" /\ pc' = "recv")
             => /\ Unwrap(message).reply = None
                /\ Cardinality(ResponsesTo(replies', execution_id)) = 0
       /\ ~(pc = "respond" /\ pc' = "recv") => replies' = replies
       /\ \A id \in Ids : Cardinality(ResponsesTo(replies', id)) <= 1]_vars

\* Two requests have been handled to the end: the one whose run failed has its
\* one response, the other has none.
C12_Witness ==
    /\ pc = "recv"
    /\ Len(replies) = 1
    /\ replies[1].response.status = "Failed"
    /\ \E a, b \in DOMAIN executions :
          /\ a # b
          /\ updates[a] = 1
          /\ updates[b] = 1
          /\ ResponsesTo(replies, a) = {1}
          /\ ResponsesTo(replies, b) = {}

\* C13: every published response carries the id of a record that has had its
\* terminal update, its status is Completed, Failed or Cancelled, and its
\* execution_id, agent_id, status, result, error, started_at and completed_at
\* are those of that record in the registry.
C13_ResponseIsProjection ==
    \A i \in 1 .. Len(replies) :
        /\ replies[i].response.execution_id \in DOMAIN executions
        /\ updates[replies[i].response.execution_id] = 1
        /\ replies[i].response.status \in Terminal
        /\ LET exec == executions[replies[i].response.execution_id]
           IN /\ replies[i].response.execution_id = exec.id
              /\ replies[i].response.agent_id = exec.request.agent_id
              /\ replies[i].response.status = exec.status
              /\ replies[i].response.result = exec.result
              /\ replies[i].response.error = exec.error
              /\ replies[i].response.started_at = exec.started_at
              /\ replies[i].response.completed_at = exec.completed_at

\* Two responses are out, one of a Completed record with its result and one of
\* a Failed record with its error, and the clock has moved since the first.
C13_Witness ==
    /\ Len(replies) = 2
    /\ replies[1].response.status = "Completed"
    /\ IsSome(replies[1].response.result)
    /\ replies[2].response.status = "Failed"
    /\ IsSome(replies[2].response.error)
    /\ now > Unwrap(replies[1].response.completed_at)

\* C14: no task holds the registry lock while it awaits: the handler holds none
\* while the sandbox runs or while its reply is being published, and main holds
\* none while it awaits the cancellation of a record.
C14_NoLockAcrossAwait ==
    /\ pc \in {"call", "respond"} => "handler" \notin readers
    /\ main = "cancelling" => "main" \notin readers

\* The data model's constraints on an AgentRequest.
MeetsConstraints(request) ==
    /\ request.agent_id # ""
    /\ request.image # ""
    /\ request.config.timeout_seconds # Some(0)

\* C15: no record is ever made for a request with an empty agent_id, an empty
\* image or a timeout of 0, and no sandbox run is started for one.
C15_InvalidRequestNotAccepted ==
    /\ \A id \in DOMAIN executions : MeetsConstraints(executions[id].request)
    /\ pc \in {"store", "execute", "call"} => MeetsConstraints(Request)

WellShaped(r) ==
    /\ DOMAIN r = {"success", "output", "error", "metrics"}
    /\ DOMAIN r.metrics = {"execution_time_ms", "memory_usage", "cpu_time", "llm_calls"}
    /\ \A f \in DOMAIN r.metrics : r.metrics[f] \in Nat
    /\ r.success => IsSome(r.output) /\ r.error = None
    /\ ~r.success => IsSome(r.error) /\ r.output = None

\* C17: every AgentResult execute_agent has returned, whether the handler still
\* holds it or a record keeps it, has metrics; output and no error when success
\* is true; error and no output when success is false.
C17_AgentResultShape ==
    /\ (IsSome(result) /\ Unwrap(result).ok) => WellShaped(Unwrap(Unwrap(result).value))
    /\ \A id \in DOMAIN executions :
          IsSome(executions[id].result) => WellShaped(Unwrap(executions[id].result))

\* A record keeps the AgentResult of a guest that returned, and the handler
\* holds the AgentResult of a guest that trapped after a second.
C17_Witness ==
    /\ \E id \in DOMAIN executions :
          /\ IsSome(executions[id].result)
          /\ Unwrap(executions[id].result).success
    /\ pc = "update"
    /\ Unwrap(result).ok
    /\ ~Unwrap(Unwrap(result).value).success
    /\ Unwrap(Unwrap(result).value).metrics.execution_time_ms = 1000

\* C18: whatever execute_agent returns is an AgentResult: a module that does not
\* compile, does not instantiate or has no matching execute export comes back
\* as an AgentResult with success = false and an error message, never as an
\* error of the call.
C18_FailureIsData ==
    IsSome(result)
        => /\ Unwrap(result).ok
           /\ WellShaped(Unwrap(Unwrap(result).value))

\* C19: a step of the health, list, get-by-id or metrics handler, wherever the
\* dispatcher and shutdown are, leaves the registry with the same records and
\* the same fields.
C19_StatusSurfaceReadOnly ==
    [][(Health \/ ListExecutions \/ GetExecution \/ Metrics)
          => /\ DOMAIN executions' = DOMAIN executions
             /\ \A id \in DOMAIN executions : executions'[id] = executions[id]]_vars

\* The handlers answer while a sandbox run is in progress: the list has two
\* records, metrics counts one of them completed and none running, and
\* get-by-id shows the record of the run in progress as Pending.
C19_Witness ==
    /\ main = "serving"
    /\ pc = "call"
    /\ ENABLED ListExecutions
    /\ list_executions_json(executions).count = 2
    /\ metrics_json(executions).total_executions = 2
    /\ metrics_json(executions).completed_executions = 1
    /\ metrics_json(executions).running_executions = 0
    /\ get_execution_json(executions, execution_id).status = "Pending"
    /\ health_json.status = "healthy"

\* What list() shows when `made` ids have been made and the handler is at `at`:
\* nothing before the first request; one record for every request whose insert
\* is done; and once a single request has been handled past its update, that
\* one record, under its id, with a terminal status.
OnePerAccepted(map, made, at) ==
    /\ made = {} => list_executions_json(map).executions = {}
    /\ list_executions_json(map).count
          = Cardinality(made) - (IF at = "store" THEN 1 ELSE 0)
    /\ Cardinality({rec.id : rec \in list_executions_json(map).executions})
          = list_executions_json(map).count
    /\ (Cardinality(made) = 1 /\ at \in {"reply", "respond", "recv"})
          => \E rec \in list_executions_json(map).executions :
                /\ list_executions_json(map).executions = {rec}
                /\ {rec.id} = made
                /\ rec.status \in Terminal

\* C20: the registry is empty before the first request, holds one record for
\* every request accepted so far, and never loses one: every step keeps every
\* record under its id with its request, only the insert of an accepted request
\* adds a record, and it adds exactly one.
C20_RecordsRetained ==
    [][/\ OnePerAccepted(executions, issued, pc)
       /\ OnePerAccepted(executions', issued', pc')
       /\ \A id \in DOMAIN executions :
             /\ id \in DOMAIN executions'
             /\ executions'[id].id = executions[id].id
             /\ executions'[id].request = executions[id].request
             /\ executions'[id].started_at = executions[id].started_at
       /\ IF pc = "store" /\ pc' = "execute"
          THEN Cardinality(DOMAIN executions') = Cardinality(DOMAIN executions) + 1
          ELSE DOMAIN executions' = DOMAIN executions]_vars

\* Two requests were accepted a second apart and handled to the end, the
\* process has shut down, and list() still has both records.
C20_Witness ==
    /\ main = "exited"
    /\ pc = "recv"
    /\ list_executions_json(executions).count = 2
    /\ \E a, b \in list_executions_json(executions).executions :
          /\ a.started_at < b.started_at
          /\ a.status \in Terminal
          /\ b.status \in Terminal

\* C21: the handler's steps for a request come in the order insert, sandbox
\* run, terminal update, reply.  Before the insert no run has started and the
\* registry has no record of the request; from the start of the run until the
\* update, get and list show its record as Pending, it has had no update and no
\* response; at the reply it has had its update, is terminal and has no
\* response yet; and every response out is of a record that has had its update.
C21_StepOrder ==
    /\ pc \in {"recv", "create"} => execution = None /\ module = None /\ result = None
    /\ pc = "store"
          => /\ execution_id \notin DOMAIN executions
             /\ Unwrap(execution).status = "Pending"
             /\ module = None
             /\ result = None
    /\ pc \in {"execute", "call", "update"}
          => /\ get_execution_json(executions, execution_id) = Unwrap(execution)
             /\ get_execution_json(executions, execution_id).status = "Pending"
             /\ Unwrap(execution) \in list_executions_json(executions).executions
             /\ updates[execution_id] = 0
             /\ ResponsesTo(replies, execution_id) = {}
             /\ IsSome(result) <=> pc = "update"
    /\ pc \in {"reply", "respond"}
          => /\ IsSome(result)
             /\ updates[execution_id] = 1
             /\ get_execution_json(executions, execution_id).status \in Terminal
             /\ ResponsesTo(replies, execution_id) = {}
    /\ \A i \in 1 .. Len(replies) : updates[replies[i].response.execution_id] = 1

\* A first request has been answered; the run of a second one is in progress
\* a second after its insert, and get shows its record as Pending.
C21_Witness ==
    /\ pc = "call"
    /\ Len(replies) = 1
    /\ replies[1].response.execution_id # execution_id
    /\ get_execution_json(executions, execution_id).status = "Pending"
    /\ now > get_execution_json(executions, execution_id).started_at
    /\ list_executions_json(executions).count = 2

\* C22: cancel on a record gives back the record as it was; the steps of
\* shutdown, which cancels every record in the registry, leave the registry
\* with the same records and the same fields; and no record is ever Cancelled.
C22_CancelOnlyLogs ==
    [][/\ \A id \in DOMAIN executions :
             /\ cancel(executions[id]) = executions[id]
             /\ executions[id].status # "Cancelled"
       /\ main' # main
             => /\ DOMAIN executions' = DOMAIN executions
                /\ \A id \in DOMAIN executions :
                      /\ executions'[id] = executions[id]
                      /\ executions'[id].status # "Cancelled"]_vars

\* Shutdown has run its cancel loop while a sandbox run was in progress: the
\* record of that run is still Pending without a completed_at, and the record
\* of an earlier run is still Completed with its result.
C22_Witness ==
    /\ main = "exited"
    /\ pc = "call"
    /\ executions[execution_id].status = "Pending"
    /\ executions[execution_id].completed_at = None
    /\ \E id \in DOMAIN executions :
          /\ executions[id].status = "Completed"
          /\ IsSome(executions[id].result)

\* C23: before and after every step each entry of the registry is stored under
\* the id its record carries; the insert stores the request the handler parsed;
\* and every step leaves the id and the request of every record as they were.
C23_KeyIsIdRequestFrozen ==
    [][/\ \A id \in DOMAIN executions : executions[id].id = id
       /\ \A id \in DOMAIN executions' : executions'[id].id = id
       /\ (pc = "store" /\ pc' = "execute")
             => executions'[execution_id].request = Request
       /\ \A id \in DOMAIN executions \cap DOMAIN executions' :
             /\ executions'[id].id = executions[id].id
             /\ executions'[id].request = executions[id].request]_vars

\* Two different requests have their records, each under its own id, and both
\* have had their update, one to Completed and one to Failed.
C23_Witness ==
    \E a, b \in DOMAIN executions :
        /\ executions[a].request.agent_id = "a1"
        /\ executions[b].request.agent_id = ""
        /\ executions[a].status = "Completed"
        /\ executions[b].status = "Failed"
        /\ updates[a] = 1
        /\ updates[b] = 1

====
